---- MODULE Spec2Model ----
(***************************************************************************)
(* Model of the drastic / indigo namespace engine:                         *)
(*   indigo/models/collection.py   Collection (namespace tree)             *)
(*   drastic/models/resource.py    Resource (leaf entries)                 *)
(*   indigo/models/data_object.py  DataObject (chunked content)            *)
(*                                                                         *)
(* A path is the sequence of its segments: "/" is <<>>, "/a/b" is          *)
(* <<"a","b">>.  The Cassandra tables are sets of rows; the primary key of *)
(* a Collection and of a Resource row is (container, name), and an insert  *)
(* of an existing key overwrites the row (upsert).                         *)
(***************************************************************************)
EXTENDS Integers, Sequences, FiniteSets, TLC

(* ------------------------------ bounds --------------------------------- *)

\* Longest path (in segments) a caller passes as the path of a new entry.
MaxDepth == 2

\* Number of identifiers the allocator hands out in one behaviour.
MaxIds == 4

\* Deepest nesting of Collection.delete_all calls that is followed.
MaxStack == 4

\* Longest list of groups of a principal.
MaxGroups == 2

\* Longest access list of an entry.
MaxAccess == 1

\* Most data objects created in one behaviour.
MaxObjects == 1

\* Most chunks written for one data object.
MaxChunks == 2

\* Segment names, in the clustering order in which the store returns rows.
NameOrder == <<"a", "b">>

Names == {NameOrder[i] : i \in 1..Len(NameOrder)}

\* Metadata maps a caller passes (a map is the set of its key/value pairs).
MetaVals == {{}, {<<"k", "v">>}}

\* Group identifiers.
Groups == {"g1", "g2"}

\* The byte strings a caller writes as the data of a chunk.
DataValues == {<<>>, <<7>>, <<7, 9>>}

(* --------------------------- the state --------------------------------- *)

VARIABLES
    collections,   \* rows of the Collection table
    resources,     \* rows of the Resource table
    idindex,       \* rows of the IDIndex table
    nextId,        \* the identifier the allocator hands out next
    published,     \* notifications published by the operation in progress / last run
    result,        \* the last call made and how it ended
    stack,         \* activation records of Collection.delete_all, innermost last
    user,          \* the principal of an access check
    entry,         \* the entry (kind and the four access lists) of an access check
    answer,        \* the last access check made and what it returned
    chunks,        \* rows of the DataObject table
    written,       \* the data handed to DataObject.create / append_chunk, in order
    reads,         \* what the calls of chunk_content since the last write yielded
    clock,         \* the reading of datetime.now()
    failing,       \* the collaborators whose calls raise at present
    trail,         \* what a subscriber of the notifications has recorded
    searchindex,   \* rows of the SearchIndex table
    indexed,       \* how often each object was indexed since its last reset
    search,        \* the last SearchIndex call made and what it returned
    calls,         \* the concurrent calls in progress, one per caller
    acl,           \* the ACE map of the data object whose ACL is updated
    aclop          \* the last ACL update made and how it ended

nsVars == <<collections, resources, idindex, nextId, published, result, stack>>

aclVars == <<user, entry, answer>>

doVars == <<chunks, written, reads>>

envVars == <<clock, failing>>

siVars == <<searchindex, indexed, search>>

ccVars == <<calls>>

aceVars == <<acl, aclop>>

vars == <<collections, resources, idindex, nextId, published, result, stack,
          user, entry, answer, chunks, written, reads, clock, failing, trail,
          searchindex, indexed, search, calls, acl, aclop>>

(* ----------------------------- paths ----------------------------------- *)

RootPath == <<>>

\* The container and the name the root row is stored under.
NullContainer == <<"null">>

RootName == "Home"

\* No row / nothing returned.
None == [none |-> TRUE]

\* The empty state {} of a notification.
EmptyState == [empty |-> TRUE]

\* The prefix and the final segment of a path; "/" has an empty final segment.
split(path) ==
    IF path = <<>> THEN <<<<>>, "">>
    ELSE <<SubSeq(path, 1, Len(path) - 1), path[Len(path)]>>

merge(container, name) == Append(container, name)

RECURSIVE PathsOfLen(_)
PathsOfLen(n) ==
    IF n = 0 THEN {<<>>}
    ELSE {Append(p, s) : p \in PathsOfLen(n - 1), s \in Names}

\* The absolute paths of at most n segments.
PathsUpTo(n) == UNION {PathsOfLen(k) : k \in 0..n}

IsPrefix(p, q) == Len(p) <= Len(q) /\ SubSeq(q, 1, Len(p)) = p

(* ------------------------- rows and lookups ---------------------------- *)

\* .first() of a query.
First(rows) == IF rows = {} THEN None ELSE CHOOSE r \in rows : TRUE

\* The rows of a query in clustering order (by name).
RECURSIVE InNameOrder(_, _)
InNameOrder(rows, i) ==
    IF i > Len(NameOrder) THEN <<>>
    ELSE LET here == {r \in rows : r.name = NameOrder[i]}
         IN  (IF here = {} THEN <<>> ELSE <<CHOOSE r \in here : TRUE>>)
                 \o InNameOrder(rows, i + 1)

\* The row of the table stored under the key (container, name).
RowAt(table, container, name) ==
    First({x \in table : x.container = container /\ x.name = name})

\* An insert that keeps the row stored under the same primary key.
Upsert_keep_both(table, row) == table \cup {row}

\* Insert of a row: a row with the same primary key is overwritten.
Upsert(table, row) ==
    {r \in table : ~(r.container = row.container /\ r.name = row.name)} \cup {row}

\* Delete of a row by its primary key.
DeleteRow(table, row) ==
    {r \in table : ~(r.container = row.container /\ r.name = row.name)}

\* The storage encoding of a metadata map and its inverse.
meta_cdmi_to_cassandra(metadata) == {<<kv[1], <<"json", kv[2]>>>> : kv \in metadata}

meta_cassandra_to_cdmi(metadata) == {<<kv[1], kv[2][2]>> : kv \in metadata}

\* Collection.path
Collection_path(c) == IF c.is_root THEN RootPath ELSE merge(c.container, c.name)

\* Resource.path
Resource_path(r) == merge(r.container, r.name)

\* Collection.get_root_collection
get_root_collection ==
    First({c \in collections : c.container = NullContainer /\ c.name = RootName})

\* Collection.find_by_path
Collection_find_by_path(path) ==
    IF path = RootPath THEN get_root_collection
    ELSE LET k == split(path)
         IN  First({c \in collections : c.container = k[1] /\ c.name = k[2]})

\* Resource.find_by_path
Resource_find_by_path(path) ==
    LET k == split(path)
    IN  First({r \in resources : r.container = k[1] /\ r.name = k[2]})

\* Resource.find_by_id
Resource_find_by_id(id) == First({r \in resources : r.id = id})

CollectionClass == "indigo.models.collection.Collection"

\* IDIndex.find
IDIndex_find(id) == First({i \in idindex : i.id = id})

\* Collection.find_by_id
Collection_find_by_id(id) ==
    LET idx == IDIndex_find(id)
    IN  IF idx # None /\ idx.classname = CollectionClass
        THEN Collection_find_by_path(idx.key)
        ELSE None

\* Collection.get_child_collections
get_child_collections(c) ==
    InNameOrder({x \in collections : x.container = Collection_path(c)}, 1)

\* Collection.get_child_resources
get_child_resources(c) ==
    InNameOrder({x \in resources : x.container = Collection_path(c)}, 1)

\* Collection.mqtt_get_state
mqtt_get_state(c) ==
    [id |-> c.id, container |-> c.container, name |-> c.name,
     create_ts |-> c.create_ts, modified_ts |-> c.modified_ts,
     metadata |-> meta_cassandra_to_cdmi(c.metadata)]

\* The message of Collection.mqtt_publish: the topic's parts and the payload.
CollectionEvent(operation, c, pre, post) ==
    [kind |-> "collection", operation |-> operation, container |-> c.container,
     name |-> c.name, payload |-> [pre |-> pre, post |-> post]]

\* The message of Resource.mqtt_publish: the topic's parts and the flat payload.
ResourceEvent(operation, r) ==
    [kind |-> "resource", operation |-> operation, container |-> r.container,
     name |-> r.name,
     payload |-> [id |-> r.id, container |-> r.container, name |-> r.name,
                  create_ts |-> r.create_ts, modified_ts |-> r.modified_ts,
                  metadata |-> meta_cassandra_to_cdmi(r.metadata)]]

\* What a call leaves in `result`.
Result(op, container, name, outcome, ret) ==
    [op |-> op, container |-> container, name |-> name, outcome |-> outcome,
     ret |-> ret]

(* ---------------------- Collection and Resource ------------------------ *)

\* The identifier allocator: every call returns an identifier never returned
\* before; identifiers are non-empty (here: at least 1).
default_cdmi_id == nextId

\* datetime.now()
now == clock

\* The collaborators whose calls can raise: the notification transport and the
\* write of an ID Index entry.
Faults == {"publish.single", "IDIndex.create"}

\* The record of a subscriber while nobody follows the notifications.
NotFollowing == [on |-> FALSE, last |-> {}]

\* The identifier of the collection a Collection notification is about.
SubjectId(e) ==
    IF e.payload.post = EmptyState THEN e.payload.pre.id ELSE e.payload.post.id

\* A subscriber receives the Collection notification e: it keeps, for every
\* collection identifier, the operation and the post-state of the last
\* notification about it.
Observe(t, e) ==
    IF ~t.on THEN t
    ELSE [t EXCEPT !.last = {x \in @ : x.id # SubjectId(e)} \cup
                               {[id |-> SubjectId(e), operation |-> e.operation,
                                 post |-> e.payload.post]}]

\* Collection.create without the check that the parent collection exists.
Collection_create_check_no_parent(container, name) ==
    IF Resource_find_by_path(merge(container, name)) # None THEN "ResourceConflict"
    ELSE IF Collection_find_by_path(merge(container, name)) # None THEN "CollectionConflict"
    ELSE "ok"

\* Collection.create without the check that no collection has the path.
Collection_create_check_no_collision(container, name) ==
    IF Collection_find_by_path(container) = None THEN "NoSuchCollection"
    ELSE IF Resource_find_by_path(merge(container, name)) # None THEN "ResourceConflict"
    ELSE "ok"

\* The checks of Collection.create, in the order the code makes them.
Collection_create_check(container, name) ==
    IF Collection_find_by_path(container) = None THEN "NoSuchCollection"
    ELSE IF Resource_find_by_path(merge(container, name)) # None THEN "ResourceConflict"
    ELSE IF Collection_find_by_path(merge(container, name)) # None THEN "CollectionConflict"
    ELSE "ok"

\* Collection.create inserting the row under the container's own key.
Collection_new_row_misplaced(container, name, metadata, is_root) ==
    [id |-> default_cdmi_id, container |-> container, name |-> split(container)[2],
     is_root |-> is_root, metadata |-> meta_cdmi_to_cassandra(metadata),
     create_ts |-> now, modified_ts |-> now]

\* The row Collection.create inserts.
Collection_new_row(container, name, metadata, is_root) ==
    [id |-> default_cdmi_id, container |-> container, name |-> name, is_root |-> is_root,
     metadata |-> meta_cdmi_to_cassandra(metadata),
     create_ts |-> now, modified_ts |-> now]

\* Collection.create that goes on when the write of the ID Index entry raised.
Collection_create_end_index_ignored ==
    IF "publish.single" \in failing THEN "PublishError" ELSE "ok"

\* How Collection.create ends once the row is inserted: with the exception of
\* the first collaborator that raises, in the order they are called, or "ok".
Collection_create_end ==
    IF "publish.single" \in failing THEN "PublishError"
    ELSE IF "IDIndex.create" \in failing THEN "IDIndexError"
    ELSE "ok"

\* Collection.create(container, name, metadata, is_root)
Collection_create(container, name, metadata, is_root) ==
    /\ stack = <<>>
    /\ LET outcome == Collection_create_check(container, name)
           res == Collection_new_row(container, name, metadata, is_root)
           end == Collection_create_end
           event == CollectionEvent("create", res, EmptyState, mqtt_get_state(res))
       IN  IF outcome = "ok"
           THEN /\ nextId <= MaxIds
                /\ collections' = Upsert(collections, res)
                /\ published' = IF end = "PublishError" THEN <<>> ELSE <<event>>
                /\ trail' = IF end = "PublishError" THEN trail ELSE Observe(trail, event)
                /\ idindex' = IF end # "ok" THEN idindex
                              ELSE {i \in idindex : i.id # res.id} \cup
                                     {[id |-> res.id, classname |-> CollectionClass,
                                       key |-> Collection_path(res)]}
                /\ nextId' = nextId + 1
                /\ result' = Result("Collection.create", container, name, end,
                                    IF end = "ok" THEN res ELSE None)
                /\ UNCHANGED <<resources, stack>>
           ELSE /\ result' = Result("Collection.create", container, name, outcome, None)
                /\ published' = <<>>
                /\ UNCHANGED <<collections, resources, idindex, nextId, stack, trail>>
    /\ UNCHANGED <<aclVars, doVars, envVars, siVars, ccVars, aceVars>>

\* Collection.create_root
Collection_create_root ==
    /\ stack = <<>>
    /\ nextId <= MaxIds
    /\ LET root == [id |-> default_cdmi_id, container |-> NullContainer, name |-> RootName,
                    is_root |-> TRUE, metadata |-> {},
                    create_ts |-> now, modified_ts |-> now]
       IN  /\ collections' = Upsert(collections, root)
           /\ result' = Result("create_root", NullContainer, RootName, "ok", root)
    /\ nextId' = nextId + 1
    /\ published' = <<>>
    /\ UNCHANGED <<resources, idindex, stack, trail, aclVars, doVars, envVars, siVars,
                   ccVars, aceVars>>

\* Collection.update choosing the operation by any difference of the two states.
update_operation_any_change(pre_state, post_state) ==
    IF pre_state = post_state THEN "update_object" ELSE "update_metadata"

\* The operation Collection.update publishes.
update_operation(pre_state, post_state) ==
    IF pre_state.metadata = post_state.metadata THEN "update_object"
    ELSE "update_metadata"

\* Collection.update(**kwargs) of the stored collection c
Collection_update(c, kwargs) ==
    /\ stack = <<>>
    /\ c \in collections
    /\ LET pre_state == mqtt_get_state(c)
           after == [c EXCEPT !.modified_ts = now,
                              !.metadata = IF kwargs.has_metadata
                                           THEN meta_cdmi_to_cassandra(kwargs.metadata)
                                           ELSE @]
           post_state == mqtt_get_state(after)
           event == CollectionEvent(update_operation(pre_state, post_state), after,
                                    pre_state, post_state)
       IN  /\ collections' = Upsert(collections, after)
           /\ IF "publish.single" \in failing
              THEN /\ published' = <<>>
                   /\ trail' = trail
                   /\ result' = Result("Collection.update", c.container, c.name,
                                       "PublishError", None)
              ELSE /\ published' = <<event>>
                   /\ trail' = Observe(trail, event)
                   /\ result' = Result("Collection.update", c.container, c.name, "ok",
                                       after)
    /\ UNCHANGED <<resources, idindex, nextId, stack, aclVars, doVars, envVars, siVars,
                   ccVars, aceVars>>

\* Collection.delete publishing the state as the post-state of the notification.
delete_event_swapped(c) == CollectionEvent("delete", c, EmptyState, mqtt_get_state(c))

\* The notification of Collection.delete: the state of c, then nothing.
delete_event(c) == CollectionEvent("delete", c, mqtt_get_state(c), EmptyState)

\* What Collection.delete of c does: the notification, the ID Index entry of
\* c.id, then the row; nothing after the notification when publish raises.
Collection_delete_effect(c) ==
    IF "publish.single" \in failing
    THEN [end |-> "PublishError", published |-> published, trail |-> trail,
          idindex |-> idindex, collections |-> collections]
    ELSE [end |-> "ok",
          published |-> Append(published, delete_event(c)),
          trail |-> Observe(trail, delete_event(c)),
          idindex |-> IF IDIndex_find(c.id) # None
                      THEN {i \in idindex : i.id # c.id}
                      ELSE idindex,
          collections |-> DeleteRow(collections, c)]

\* Collection.delete of the stored collection c
Collection_delete(c) ==
    /\ stack = <<>>
    /\ c \in collections
    /\ LET e == Collection_delete_effect(c)
       IN  /\ published' = IF e.end = "ok" THEN <<e.published[Len(e.published)]>> ELSE <<>>
           /\ trail' = e.trail
           /\ idindex' = e.idindex
           /\ collections' = e.collections
           /\ result' = Result("Collection.delete", c.container, c.name, e.end, None)
    /\ UNCHANGED <<resources, nextId, stack, aclVars, doVars, envVars, siVars, ccVars, aceVars>>

\* The checks of Resource.create, in the order the code makes them.
Resource_create_check(container, name) ==
    IF Collection_find_by_path(container) = None THEN "NoSuchCollection"
    ELSE IF name \in {e.name : e \in {r \in resources : r.container = container}}
         THEN "ResourceConflict"
    ELSE "ok"

\* How a Resource operation ends once it calls mqtt_publish.
Resource_publish_end == IF "publish.single" \in failing THEN "PublishError" ELSE "ok"

\* Resource.create(container, name, metadata)
Resource_create(container, name, metadata) ==
    /\ stack = <<>>
    /\ LET outcome == Resource_create_check(container, name)
           res == [id |-> default_cdmi_id, container |-> container, name |-> name,
                   metadata |-> meta_cdmi_to_cassandra(metadata),
                   create_ts |-> now, modified_ts |-> now]
           end == Resource_publish_end
       IN  IF outcome = "ok"
           THEN /\ nextId <= MaxIds
                /\ resources' = Upsert(resources, res)
                /\ published' = IF end = "ok" THEN <<ResourceEvent("create", res)>> ELSE <<>>
                /\ nextId' = nextId + 1
                /\ result' = Result("Resource.create", container, name, end,
                                    IF end = "ok" THEN res ELSE None)
                /\ UNCHANGED <<collections, idindex, stack>>
           ELSE /\ result' = Result("Resource.create", container, name, outcome, None)
                /\ published' = <<>>
                /\ UNCHANGED <<collections, resources, idindex, nextId, stack>>
    /\ UNCHANGED <<trail, aclVars, doVars, envVars, siVars, ccVars, aceVars>>

\* Resource.update(**kwargs) of the stored resource r
Resource_update(r, kwargs) ==
    /\ stack = <<>>
    /\ r \in resources
    /\ LET after == [r EXCEPT !.modified_ts = now,
                              !.metadata = IF kwargs.has_metadata
                                           THEN meta_cdmi_to_cassandra(kwargs.metadata)
                                           ELSE @]
           end == Resource_publish_end
       IN  /\ resources' = Upsert(resources, after)
           /\ published' = IF end = "ok" THEN <<ResourceEvent("update", after)>> ELSE <<>>
           /\ result' = Result("Resource.update", r.container, r.name, end,
                               IF end = "ok" THEN after ELSE None)
    /\ UNCHANGED <<collections, idindex, nextId, stack, trail, aclVars, doVars, envVars,
                   siVars, ccVars, aceVars>>

\* Resource.delete of the stored resource r
Resource_delete(r) ==
    /\ stack = <<>>
    /\ r \in resources
    /\ LET end == Resource_publish_end
       IN  /\ published' = IF end = "ok" THEN <<ResourceEvent("delete", r)>> ELSE <<>>
           /\ resources' = IF end = "ok" THEN DeleteRow(resources, r) ELSE resources
           /\ result' = Result("Resource.delete", r.container, r.name, end, None)
    /\ UNCHANGED <<collections, idindex, nextId, stack, trail, aclVars, doVars, envVars,
                   siVars, ccVars, aceVars>>

(* ----------------------- Collection.delete_all ------------------------- *)

\* The activation record of delete_all(path) once parent was found: the two
\* child lists are read before anything is deleted.
Frame(path, parent) ==
    [path |-> path, parent |-> parent,
     collections |-> get_child_collections(parent),
     resources |-> get_child_resources(parent)]

Top == stack[Len(stack)]

\* delete_all that deletes the collection without recursing into its children.
delete_all_phase_no_recursion(frame) ==
    IF frame.resources # <<>> THEN "resource" ELSE "parent"

\* delete_all that recurses into the child collections before it deletes the
\* child resources.
delete_all_phase_recurse_first(frame) ==
    IF frame.collections # <<>> THEN "recurse"
    ELSE IF frame.resources # <<>> THEN "resource"
    ELSE "parent"

\* What the innermost delete_all does next: its resources, then the recursion
\* into its child collections, then the collection itself.
delete_all_phase(frame) ==
    IF frame.resources # <<>> THEN "resource"
    ELSE IF frame.collections # <<>> THEN "recurse"
    ELSE "parent"

\* The call Collection.delete_all(path) by the caller.
Collection_delete_all(path) ==
    /\ stack = <<>>
    /\ published' = <<>>
    /\ LET parent == Collection_find_by_path(path)
       IN  IF parent = None
           THEN /\ result' = Result("delete_all", path, "", "ok", None)
                /\ stack' = <<>>
           ELSE /\ result' = Result("delete_all", path, "", "running", None)
                /\ stack' = <<Frame(path, parent)>>
    /\ UNCHANGED <<collections, resources, idindex, nextId, trail, aclVars, doVars,
                   envVars, siVars, ccVars, aceVars>>

\* for resource in resources: resource.delete(); an exception of publish ends
\* every delete_all in progress.
delete_all_resource ==
    /\ stack # <<>>
    /\ delete_all_phase(Top) = "resource"
    /\ LET r == Head(Top.resources)
       IN  IF Resource_publish_end = "ok"
           THEN /\ published' = Append(published, ResourceEvent("delete", r))
                /\ resources' = DeleteRow(resources, r)
                /\ stack' = [stack EXCEPT ![Len(stack)].resources = Tail(@)]
                /\ result' = result
           ELSE /\ stack' = <<>>
                /\ result' = [result EXCEPT !.outcome = Resource_publish_end]
                /\ UNCHANGED <<published, resources>>
    /\ UNCHANGED <<collections, idindex, nextId, trail, aclVars, doVars, envVars, siVars,
                   ccVars, aceVars>>

\* for collection in collections: Collection.delete_all(collection.path())
delete_all_recurse ==
    /\ stack # <<>>
    /\ delete_all_phase(Top) = "recurse"
    /\ Len(stack) < MaxStack
    /\ LET path == Collection_path(Head(Top.collections))
           parent == Collection_find_by_path(path)
           rest == [stack EXCEPT ![Len(stack)].collections = Tail(@)]
       IN  stack' = IF parent = None THEN rest
                    ELSE Append(rest, Frame(path, parent))
    /\ UNCHANGED <<collections, resources, idindex, nextId, published, result, trail,
                   aclVars, doVars, envVars, siVars, ccVars, aceVars>>

\* parent.delete() and the return of the innermost delete_all; an exception of
\* publish ends every delete_all in progress.
delete_all_parent ==
    /\ stack # <<>>
    /\ delete_all_phase(Top) = "parent"
    /\ LET e == Collection_delete_effect(Top.parent)
       IN  /\ published' = e.published
           /\ trail' = e.trail
           /\ idindex' = e.idindex
           /\ collections' = e.collections
           /\ stack' = IF e.end = "ok" THEN SubSeq(stack, 1, Len(stack) - 1) ELSE <<>>
           /\ result' = IF e.end # "ok" THEN [result EXCEPT !.outcome = e.end]
                         ELSE IF Len(stack) = 1 THEN [result EXCEPT !.outcome = "ok"]
                         ELSE result
    /\ UNCHANGED <<resources, nextId, aclVars, doVars, envVars, siVars, ccVars, aceVars>>

(* ------------------------- specifications ------------------------------ *)

\* No SearchIndex call was made yet.
NoSearch == [op |-> "none", terms |-> <<>>, id |-> 0, outcome |-> "ok", results |-> <<>>]

\* No concurrent call is in progress.
NoCalls == <<>>

\* No ACL update was made yet.
NoAclUpdate ==
    [op |-> "none", outcome |-> "ok", read_access |-> {}, write_access |-> {},
     cdmi_acl |-> <<>>]

NsInit ==
    /\ collections = {}
    /\ resources = {}
    /\ idindex = {}
    /\ nextId = 1
    /\ published = <<>>
    /\ result = Result("none", <<>>, "", "ok", None)
    /\ stack = <<>>

AclIdle ==
    /\ user = [administrator |-> FALSE, groups |-> <<>>]
    /\ entry = [kind |-> "Collection", read_access |-> <<>>, write_access |-> <<>>,
                edit_access |-> <<>>, delete_access |-> <<>>]
    /\ answer = [action |-> "none", allowed |-> FALSE]

DoIdle ==
    /\ chunks = {}
    /\ written = <<>>
    /\ reads = <<>>

\* The clock stands, no collaborator fails and nobody follows the notifications.
EnvIdle ==
    /\ clock = 0
    /\ failing = {}
    /\ trail = NotFollowing

SiIdle ==
    /\ searchindex = {}
    /\ indexed = {}
    /\ search = NoSearch

CcIdle == calls = NoCalls

\* The object has no ACE and no ACL update was made.
AceIdle ==
    /\ acl = {}
    /\ aclop = NoAclUpdate

Init == NsInit /\ AclIdle /\ DoIdle /\ EnvIdle /\ SiIdle /\ CcIdle /\ AceIdle

\* The calls a client makes with the signature create(container, name, metadata).
Create ==
    \/ \E container \in PathsUpTo(MaxDepth - 1), name \in Names, metadata \in MetaVals :
          Collection_create(container, name, metadata, FALSE)
    \/ \E container \in PathsUpTo(MaxDepth - 1), name \in Names, metadata \in MetaVals :
          Resource_create(container, name, metadata)

\* The keyword arguments of an update: with or without a metadata map.
UpdateKwargs ==
    {[has_metadata |-> FALSE, metadata |-> {}]} \cup
    {[has_metadata |-> TRUE, metadata |-> m] : m \in MetaVals}

Update ==
    \/ \E c \in collections, kwargs \in UpdateKwargs : Collection_update(c, kwargs)
    \/ \E r \in resources, kwargs \in UpdateKwargs : Resource_update(r, kwargs)

DeleteAll ==
    \/ \E path \in PathsUpTo(MaxDepth) : Collection_delete_all(path)
    \/ delete_all_resource
    \/ delete_all_recurse
    \/ delete_all_parent

\* Every operation of the namespace, in any order, one call at a time.
Next ==
    \/ Collection_create_root
    \/ Create
    \/ Update
    \/ \E r \in resources : Resource_delete(r)
    \/ \E c \in collections : Collection_delete(c)
    \/ DeleteAll

Spec == Init /\ [][Next]_vars

\* The root is created once, before anything else can be stored.
create_root_once == nextId = 1 /\ Collection_create_root

\* The operations of a client that removes collections with delete_all only.
NextCascade ==
    \/ create_root_once
    \/ Create
    \/ Update
    \/ \E r \in resources : Resource_delete(r)
    \/ DeleteAll

SpecCascade == Init /\ [][NextCascade]_vars

\* A client that also passes the is_root column through create(**kwargs).
CreateKw ==
    \/ \E container \in PathsUpTo(MaxDepth - 1), name \in Names, is_root \in BOOLEAN :
          Collection_create(container, name, {}, is_root)
    \/ \E container \in PathsUpTo(MaxDepth - 1), name \in Names :
          Resource_create(container, name, {})

NextKw ==
    \/ create_root_once
    \/ CreateKw
    \/ DeleteAll

SpecKw == Init /\ [][NextKw]_vars

(* -------------------------- access control ----------------------------- *)

Actions == {"read", "write", "edit", "delete"}

Range(l) == {l[i] : i \in 1..Len(l)}

RECURSIVE SeqsOfLen(_, _)
SeqsOfLen(S, n) ==
    IF n = 0 THEN {<<>>}
    ELSE {Append(q, x) : q \in SeqsOfLen(S, n - 1), x \in S}

\* The lists of at most n elements of S.
SeqsUpTo(S, n) == UNION {SeqsOfLen(S, k) : k \in 0..n}

\* getattr(self, '{}_access'.format(action))
access_list(e, action) ==
    CASE action = "read" -> e.read_access
      [] action = "write" -> e.write_access
      [] action = "edit" -> e.edit_access
      [] action = "delete" -> e.delete_access

\* Collection.user_can granting access when the group sets merely do not grow.
Collection_user_can_off_by_one(u, e, action) ==
    IF u.administrator THEN TRUE
    ELSE LET l == access_list(e, action)
         IN  IF Len(l) # 0 /\ Len(u.groups) = 0 THEN FALSE
             ELSE IF Len(l) = 0 THEN TRUE
             ELSE Cardinality(Range(u.groups) \ Range(l)) <= Len(u.groups)

\* Collection.user_can
Collection_user_can(u, e, action) ==
    IF u.administrator THEN TRUE
    ELSE LET l == access_list(e, action)
         IN  IF Len(l) # 0 /\ Len(u.groups) = 0 THEN FALSE
             ELSE IF Len(l) = 0 THEN TRUE
             ELSE LET groups == Range(u.groups) \ Range(l)
                  IN  Cardinality(groups) < Len(u.groups)

\* Resource.user_can
Resource_user_can(u, e, action) ==
    IF u.administrator THEN TRUE
    ELSE LET l == access_list(e, action)
         IN  IF Len(l) # 0 /\ Len(u.groups) = 0 THEN FALSE
             ELSE IF Len(l) = 0 THEN TRUE
             ELSE LET groups == Range(u.groups) \ Range(l)
                  IN  Cardinality(groups) < Len(u.groups)

\* entry.user_can(user, action) on the Collection or Resource `entry`
user_can(action) ==
    /\ answer' = [action |-> action,
                  allowed |-> IF entry.kind = "Collection"
                              THEN Collection_user_can(user, entry, action)
                              ELSE Resource_user_can(user, entry, action)]
    /\ UNCHANGED <<user, entry, nsVars, doVars, envVars, trail, siVars, ccVars, aceVars>>

\* Any principal against any entry.
AnyAccessCheck ==
    /\ user \in [administrator : BOOLEAN, groups : SeqsUpTo(Groups, MaxGroups)]
    /\ entry \in [kind : {"Collection", "Resource"},
                  read_access : SeqsUpTo(Groups, MaxAccess),
                  write_access : SeqsUpTo(Groups, MaxAccess),
                  edit_access : SeqsUpTo(Groups, MaxAccess),
                  delete_access : SeqsUpTo(Groups, MaxAccess)]
    /\ answer = [action |-> "none", allowed |-> FALSE]

NextAcl == \E action \in Actions : user_can(action)

InitAcl == NsInit /\ AnyAccessCheck /\ DoIdle /\ EnvIdle /\ SiIdle /\ CcIdle /\ AceIdle

SpecAcl == InitAcl /\ [][NextAcl]_vars

(* ---------------------------- data objects ----------------------------- *)

\* The single-member archive a caller passes as a compressed blob: a header
\* naming the member "data" (code 100) and its length, the content, a trailer.
ZipArchive(data) == <<80, 75, 100, Len(data)>> \o data \o <<80, 75, 5, 6>>

\* zipfile.ZipFile(StringIO(blob), 'r').read("data")
zip_read(blob) == SubSeq(blob, 5, 4 + blob[4])

\* The rows of one identity in clustering order (ascending sequence_number).
RECURSIVE entries_from(_, _)
entries_from(id, n) ==
    IF n >= MaxChunks THEN <<>>
    ELSE LET here == {e \in chunks : e.id = id /\ e.sequence_number = n}
         IN  (IF here = {} THEN <<>> ELSE <<CHOOSE e \in here : TRUE>>)
                 \o entries_from(id, n + 1)

\* One block of chunk_content that yields the blob of a compressed chunk as it is.
chunk_block_raw(e) == e.blob

\* One block of chunk_content.
chunk_block(e) == IF e.compressed THEN zip_read(e.blob) ELSE e.blob

\* DataObject.chunk_content of the object id: the blocks it yields, in order.
chunk_content(id) ==
    LET entries == entries_from(id, 0)
    IN  [i \in 1..Len(entries) |-> chunk_block(entries[i])]

\* save() of a DataObject row: the primary key is (id, sequence_number).
SaveChunk(row) ==
    {e \in chunks : ~(e.id = row.id /\ e.sequence_number = row.sequence_number)}
        \cup {row}

\* The blob a caller stores for `data`: its archive when compressed is set.
BlobOf(data, compressed) == IF compressed THEN ZipArchive(data) ELSE data

\* DataObject.create(data, compressed), data being the bytes before compression
DataObject_create(data, compressed) ==
    /\ Len(written) < MaxObjects
    /\ nextId <= MaxIds
    /\ chunks' = SaveChunk([id |-> default_cdmi_id, sequence_number |-> 0,
                            blob |-> BlobOf(data, compressed),
                            compressed |-> compressed])
    /\ written' = Append(written, [id |-> default_cdmi_id, data |-> <<data>>])
    /\ nextId' = nextId + 1
    /\ reads' = <<>>
    /\ UNCHANGED <<collections, resources, idindex, published, result, stack, aclVars,
                   envVars, trail, siVars, ccVars, aceVars>>

\* DataObject.append_chunk(id, data, sequence_number, compressed) for the next
\* sequence number of the object written[o]
DataObject_append_chunk(o, data, compressed) ==
    /\ Len(written[o].data) < MaxChunks
    /\ chunks' = SaveChunk([id |-> written[o].id,
                            sequence_number |-> Len(written[o].data),
                            blob |-> BlobOf(data, compressed),
                            compressed |-> compressed])
    /\ written' = [written EXCEPT ![o].data = Append(@, data)]
    /\ reads' = <<>>
    /\ UNCHANGED <<nsVars, aclVars, envVars, trail, siVars, ccVars, aceVars>>

\* A consumer runs chunk_content() of the object written[o] to its end.
DataObject_chunk_content(o) ==
    /\ Len(reads) < 2
    /\ reads' = Append(reads, [id |-> written[o].id,
                               blocks |-> chunk_content(written[o].id)])
    /\ UNCHANGED <<nsVars, aclVars, chunks, written, envVars, trail, siVars, ccVars, aceVars>>

NextChunks ==
    \/ \E data \in DataValues, compressed \in BOOLEAN :
          DataObject_create(data, compressed)
    \/ \E o \in 1..Len(written), data \in DataValues, compressed \in BOOLEAN :
          DataObject_append_chunk(o, data, compressed)
    \/ \E o \in 1..Len(written) : DataObject_chunk_content(o)

SpecChunks == Init /\ [][NextChunks]_vars

\* DataObject.append_chunk(id, data, sequence_number, compressed) as any
\* caller can make it: the identity and the sequence number are arguments, and
\* the row is saved under them whatever is stored.
DataObject_append_chunk_at(id, data, sequence_number, compressed) ==
    /\ chunks' = SaveChunk([id |-> id, sequence_number |-> sequence_number,
                            blob |-> BlobOf(data, compressed),
                            compressed |-> compressed])
    /\ reads' = <<>>
    /\ UNCHANGED <<nsVars, aclVars, written, envVars, trail, siVars, ccVars, aceVars>>

\* Callers that create objects and append chunks under numbers of their choice.
NextAppend ==
    \/ \E data \in DataValues, compressed \in BOOLEAN :
          DataObject_create(data, compressed)
    \/ \E id \in 1..MaxObjects, data \in DataValues, sequence_number \in 0..MaxChunks,
             compressed \in BOOLEAN :
          DataObject_append_chunk_at(id, data, sequence_number, compressed)

SpecAppend == Init /\ [][NextAppend]_vars

(* ----------------------------- term index ------------------------------ *)

\* Most terms of one call of SearchIndex.find.
MaxTerms == 2

\* Most calls of SearchIndex.index for one object between two resets.
MaxIndexings == 1

\* The names of the collections that are indexed.
SearchNames == {"T_t", "A_t", "t_o"}

\* The characters of a name.
Spelling(name) ==
    CASE name = "T_t" -> <<"T", "_", "t">>
      [] name = "A_t" -> <<"A", "_", "t">>
      [] name = "t_o" -> <<"t", "_", "o">>
      [] name = "Home" -> <<"H", "o", "m", "e">>
      [] OTHER -> <<name>>

\* The terms a caller searches for, stop words among them.
QueryTerms == {<<"t">>, <<"o">>, <<"t", "h", "e">>, <<"h", "o", "m", "e">>}

\* str.lower
str_lower(t) ==
    [i \in 1..Len(t) |-> CASE t[i] = "A" -> "a"
                           [] t[i] = "H" -> "h"
                           [] t[i] = "T" -> "t"
                           [] OTHER -> t[i]]

\* str.replace(old, new) for single characters
str_replace(t, old, new) == [i \in 1..Len(t) |-> IF t[i] = old THEN new ELSE t[i]]

\* str.split(sep): the pieces between the occurrences of sep, empty ones included
RECURSIVE str_split(_, _)
str_split(t, sep) ==
    IF \A i \in 1..Len(t) : t[i] # sep THEN <<t>>
    ELSE LET k == CHOOSE i \in 1..Len(t) :
                      t[i] = sep /\ \A j \in 1..(i - 1) : t[j] # sep
         IN  <<SubSeq(t, 1, k - 1)>> \o str_split(SubSeq(t, k + 1, Len(t)), sep)

\* clean(t) of SearchIndex.index
clean(t) == str_split(str_replace(str_lower(t), "_", " "), " ")

\* SearchIndex.is_stop_word
is_stop_word(term) ==
    term \in {<<"a">>, <<"t", "h", "e">>, <<"o", "f">>, <<"i", "s">>}

\* The identifier of a new SearchIndex row, one that no stored row has: the
\* object and the number of the row among the rows of the object.
default_id(table, object_id) ==
    CHOOSE i \in {<<object_id, n>> : n \in 1..(Cardinality(table) + 1)} :
        \A r \in table : r.id # i

\* for term in terms: SearchIndex.create(term, object_type, object_id), stop
\* words skipped
RECURSIVE create_rows(_, _, _, _)
create_rows(table, terms, object_type, object_id) ==
    IF terms = <<>> THEN table
    ELSE IF is_stop_word(Head(terms))
         THEN create_rows(table, Tail(terms), object_type, object_id)
    ELSE create_rows(table \cup {[id |-> default_id(table, object_id), term |-> Head(terms),
                                  object_type |-> object_type,
                                  object_id |-> object_id]},
                     Tail(terms), object_type, object_id)

\* How often the object was indexed since it was last reset.
Times(id) ==
    IF \E x \in indexed : x.id = id
    THEN (CHOOSE x \in indexed : x.id = id).times
    ELSE 0

\* What a SearchIndex call leaves in `search`.
SearchResult(op, terms, id, outcome, results) ==
    [op |-> op, terms |-> terms, id |-> id, outcome |-> outcome, results |-> results]

\* SearchIndex.index(object, fields=['name']) of an object of class object_type
SearchIndex_index(object, object_type) ==
    /\ Times(object.id) < MaxIndexings
    /\ searchindex' = create_rows(searchindex, clean(Spelling(object.name)),
                                  object_type, object.id)
    /\ indexed' = {x \in indexed : x.id # object.id} \cup
                    {[id |-> object.id, times |-> Times(object.id) + 1]}
    /\ search' = SearchResult("index", <<>>, object.id, "ok", <<>>)
    /\ UNCHANGED <<nsVars, trail, aclVars, doVars, envVars, ccVars, aceVars>>

\* SearchIndex.reset that deletes the first row of the object only.
reset_rows_first(table, id) ==
    IF \E r \in table : r.object_id = id
    THEN table \ {CHOOSE r \in table : r.object_id = id}
    ELSE table

\* The table after SearchIndex.reset(id): each row of the object is deleted.
reset_rows(table, id) == {r \in table : r.object_id # id}

\* SearchIndex.reset(id)
SearchIndex_reset(id) ==
    /\ searchindex' = reset_rows(searchindex, id)
    /\ indexed' = {x \in indexed : x.id # id} \cup {[id |-> id, times |-> 0]}
    /\ search' = SearchResult("reset", <<>>, id, "ok", <<>>)
    /\ UNCHANGED <<nsVars, trail, aclVars, doVars, envVars, ccVars, aceVars>>

\* cls.objects.filter(term=t).all() for a term that is no stop word
rows_of_term(t) ==
    IF is_stop_word(t) THEN {} ELSE {r \in searchindex : r.term = t}

\* get_object(obj) raises: the row names a Collection that find_by_id does not
\* resolve, and to_dict is called on None.
get_object_raises(obj) ==
    obj.object_type = "Collection" /\ Collection_find_by_id(obj.object_id) = None

\* The rows find collects for the terms that get_object turns into the entry
\* with identifier k.
matches(k, t) ==
    {r \in rows_of_term(t) :
        /\ r.object_type = "Collection"
        /\ Collection_find_by_id(r.object_id).id = k}

\* len(matches) for the key k: the rows collected for every term of the list,
\* term by term.
RECURSIVE hit_count(_, _)
hit_count(k, termstrings) ==
    IF termstrings = <<>> THEN 0
    ELSE Cardinality(matches(k, Head(termstrings))) + hit_count(k, Tail(termstrings))

\* The entries of the result of find, one per key.
result_list(termstrings) ==
    {[id |-> c.id, name |-> c.name, path |-> Collection_path(c), type |-> "Collection",
      hit_count |-> hit_count(c.id, termstrings)] :
        c \in {x \in collections : hit_count(x.id, termstrings) > 0}}

\* sorted(result_list, key=hit_count, reverse=True): the order of entries with
\* equal hit_count is the order of a set of keys, which is any order.
sorted_by_hit_count(entries) ==
    {s \in [1..Cardinality(entries) -> entries] :
        /\ \A i, j \in 1..Cardinality(entries) : i # j => s[i] # s[j]
        /\ \A i, j \in 1..Cardinality(entries) :
              i < j => s[i].hit_count >= s[j].hit_count}

\* SearchIndex.find(termstrings)
SearchIndex_find(termstrings) ==
    /\ LET rows == UNION {rows_of_term(termstrings[i]) : i \in 1..Len(termstrings)}
       IN  IF \E r \in rows : get_object_raises(r)
           THEN search' = SearchResult("find", termstrings, 0, "AttributeError", <<>>)
           ELSE \E results \in sorted_by_hit_count(result_list(termstrings)) :
                   search' = SearchResult("find", termstrings, 0, "ok", results)
    /\ UNCHANGED <<nsVars, trail, aclVars, doVars, envVars, searchindex, indexed, ccVars, aceVars>>

\* A client that creates collections below the root, indexes, resets and
\* searches.
NextSearch ==
    \/ create_root_once
    \/ \E name \in SearchNames : Collection_create(RootPath, name, {}, FALSE)
    \/ \E c \in collections : SearchIndex_index(c, "Collection")
    \/ \E c \in collections : SearchIndex_reset(c.id)
    \/ \E termstrings \in SeqsUpTo(QueryTerms, MaxTerms) : SearchIndex_find(termstrings)

SpecSearch == Init /\ [][NextSearch]_vars

\* A client that indexes collections and resources of the root, deletes
\* collections without resetting the index, and searches.
NextStale ==
    \/ create_root_once
    \/ \E name \in {"T_t", "A_t"} : Collection_create(RootPath, name, {}, FALSE)
    \/ Resource_create(RootPath, "t_o", {})
    \/ \E c \in collections : SearchIndex_index(c, "Collection")
    \/ \E r \in resources : SearchIndex_index(r, "Resource")
    \/ \E c \in collections : Collection_delete(c)
    \/ \E termstrings \in SeqsUpTo(QueryTerms, MaxTerms) : SearchIndex_find(termstrings)

SpecStale == Init /\ [][NextStale]_vars

(* -------------------------- notifications ------------------------------ *)

\* Latest reading of the clock in one behaviour.
MaxClock == 1

\* Time passes between two calls.
Tick ==
    /\ clock < MaxClock
    /\ clock' = clock + 1
    /\ UNCHANGED <<nsVars, failing, trail, aclVars, doVars, siVars, ccVars, aceVars>>

\* The record of a subscriber that follows the notifications from the start.
Following == [on |-> TRUE, last |-> {}]

InitEvents ==
    /\ NsInit
    /\ AclIdle
    /\ DoIdle
    /\ clock = 0
    /\ failing = {}
    /\ trail = Following
    /\ SiIdle
    /\ CcIdle /\ AceIdle

\* A client that creates collections in the root, updates and deletes
\* collections, while time passes and a subscriber follows.
NextEvents ==
    \/ create_root_once
    \/ \E name \in Names, metadata \in MetaVals :
          Collection_create(RootPath, name, metadata, FALSE)
    \/ \E c \in collections, kwargs \in UpdateKwargs : Collection_update(c, kwargs)
    \/ \E c \in collections : Collection_delete(c)
    \/ Tick

SpecEvents == InitEvents /\ [][NextEvents]_vars

(* ------------------------ failing collaborators ------------------------ *)

\* The transport or the ID Index starts or stops raising.
SetFailing(f) ==
    /\ f # failing
    /\ failing' = f
    /\ UNCHANGED <<nsVars, clock, trail, aclVars, doVars, siVars, ccVars, aceVars>>

\* A client of the root collection while collaborators fail and recover.
NextFaults ==
    \/ create_root_once
    \/ \E name \in Names, metadata \in MetaVals :
          Collection_create(RootPath, name, metadata, FALSE)
    \/ \E name \in Names : Resource_create(RootPath, name, {})
    \/ Update
    \/ \E r \in resources : Resource_delete(r)
    \/ \E c \in collections : Collection_delete(c)
    \/ DeleteAll
    \/ \E f \in SUBSET Faults : SetFailing(f)

SpecFaults == Init /\ [][NextFaults]_vars

(* -------------------------- concurrent callers -------------------------- *)

\* Number of callers that run a call at the same time.
MaxCalls == 2

\* The activation record of a Collection.create that has read its arguments
\* and the time and is about to check its parent.
CreateCall(container, name, metadata) ==
    [op |-> "Collection.create", container |-> container, name |-> name,
     metadata |-> metadata, ts |-> now, pc |-> "check_parent",
     res |-> None, outcome |-> "running"]

\* The call ends with an exception.
Raise(call, error) == [call EXCEPT !.pc = "done", !.outcome = error]

\* What no step of a concurrent call touches.
RaceFrame ==
    UNCHANGED <<resources, result, stack, aclVars, doVars, envVars, siVars, aceVars>>

\* A caller enters Collection.create.
create_begin(container, name, metadata) ==
    /\ stack = <<>>
    /\ Len(calls) < MaxCalls
    /\ calls' = Append(calls, CreateCall(container, name, metadata))
    /\ UNCHANGED <<collections, idindex, nextId, published, trail>>
    /\ RaceFrame

\* The check that the parent collection exists.
create_check_parent(i) ==
    /\ calls[i].pc = "check_parent"
    /\ calls' = [calls EXCEPT ![i] =
                    IF Collection_find_by_path(@.container) = None
                    THEN Raise(@, "NoSuchCollection")
                    ELSE [@ EXCEPT !.pc = "check_resource"]]
    /\ UNCHANGED <<collections, idindex, nextId, published, trail>>
    /\ RaceFrame

\* The check that no resource has the path.
create_check_resource(i) ==
    /\ calls[i].pc = "check_resource"
    /\ calls' = [calls EXCEPT ![i] =
                    IF Resource_find_by_path(merge(@.container, @.name)) # None
                    THEN Raise(@, "ResourceConflict")
                    ELSE [@ EXCEPT !.pc = "check_collection"]]
    /\ UNCHANGED <<collections, idindex, nextId, published, trail>>
    /\ RaceFrame

\* The check that no collection has the path.
create_check_collection(i) ==
    /\ calls[i].pc = "check_collection"
    /\ calls' = [calls EXCEPT ![i] =
                    IF Collection_find_by_path(merge(@.container, @.name)) # None
                    THEN Raise(@, "CollectionConflict")
                    ELSE [@ EXCEPT !.pc = "insert"]]
    /\ UNCHANGED <<collections, idindex, nextId, published, trail>>
    /\ RaceFrame

\* An insert that is refused when a row has the key already.
insert_end_if_not_exists(table, row) ==
    IF RowAt(table, row.container, row.name) # None THEN "CollectionConflict" ELSE "ok"

\* How the insert of a row ends: the write is unconditional.
insert_end(table, row) == "ok"

\* The insert of the row, which draws the identifier of the new collection.
create_insert(i) ==
    /\ calls[i].pc = "insert"
    /\ nextId <= MaxIds
    /\ LET c == calls[i]
           res == [Collection_new_row(c.container, c.name, c.metadata, FALSE)
                      EXCEPT !.create_ts = c.ts, !.modified_ts = c.ts]
           end == insert_end(collections, res)
       IN  IF end = "ok"
           THEN /\ collections' = Upsert(collections, res)
                /\ nextId' = nextId + 1
                /\ calls' = [calls EXCEPT ![i].pc = "publish", ![i].res = res]
           ELSE /\ calls' = [calls EXCEPT ![i] = Raise(@, end)]
                /\ UNCHANGED <<collections, nextId>>
    /\ UNCHANGED <<idindex, published, trail>>
    /\ RaceFrame

\* The notification of the create.
create_publish(i) ==
    /\ calls[i].pc = "publish"
    /\ LET res == calls[i].res
           event == CollectionEvent("create", res, EmptyState, mqtt_get_state(res))
       IN  IF "publish.single" \in failing
           THEN /\ calls' = [calls EXCEPT ![i] = Raise(@, "PublishError")]
                /\ UNCHANGED <<published, trail>>
           ELSE /\ calls' = [calls EXCEPT ![i].pc = "index"]
                /\ published' = Append(published, event)
                /\ trail' = Observe(trail, event)
    /\ UNCHANGED <<collections, idindex, nextId>>
    /\ RaceFrame

\* The write of the ID Index entry, and the return of the new collection.
create_index(i) ==
    /\ calls[i].pc = "index"
    /\ LET res == calls[i].res
       IN  IF "IDIndex.create" \in failing
           THEN /\ calls' = [calls EXCEPT ![i] = Raise(@, "IDIndexError")]
                /\ UNCHANGED idindex
           ELSE /\ calls' = [calls EXCEPT ![i].pc = "done", ![i].outcome = "ok"]
                /\ idindex' = {x \in idindex : x.id # res.id} \cup
                                 {[id |-> res.id, classname |-> CollectionClass,
                                   key |-> Collection_path(res)]}
    /\ UNCHANGED <<collections, nextId, published, trail>>
    /\ RaceFrame

\* Callers that create collections in the root at the same time.
NextRace ==
    \/ create_root_once /\ calls = NoCalls
    \/ \E name \in Names, metadata \in MetaVals : create_begin(RootPath, name, metadata)
    \/ \E i \in DOMAIN calls : create_check_parent(i)
    \/ \E i \in DOMAIN calls : create_check_resource(i)
    \/ \E i \in DOMAIN calls : create_check_collection(i)
    \/ \E i \in DOMAIN calls : create_insert(i)
    \/ \E i \in DOMAIN calls : create_publish(i)
    \/ \E i \in DOMAIN calls : create_index(i)

SpecRace == Init /\ [][NextRace]_vars

\* The activation record of the Collection.delete of the object c a caller
\* holds, about to publish.
DeleteCall(c) ==
    [op |-> "Collection.delete", container |-> c.container, name |-> c.name,
     metadata |-> {}, ts |-> now, pc |-> "delete_publish", res |-> c,
     outcome |-> "running"]

\* A caller enters the delete of a collection it has read from the store.
delete_begin(c) ==
    /\ stack = <<>>
    /\ Len(calls) < MaxCalls
    /\ calls' = Append(calls, DeleteCall(c))
    /\ UNCHANGED <<collections, idindex, nextId, published, trail>>
    /\ RaceFrame

\* The notification of the delete, with the state of the object the caller holds.
delete_publish(i) ==
    /\ calls[i].pc = "delete_publish"
    /\ LET event == delete_event(calls[i].res)
       IN  IF "publish.single" \in failing
           THEN /\ calls' = [calls EXCEPT ![i] = Raise(@, "PublishError")]
                /\ UNCHANGED <<published, trail>>
           ELSE /\ calls' = [calls EXCEPT ![i].pc = "delete_index"]
                /\ published' = Append(published, event)
                /\ trail' = Observe(trail, event)
    /\ UNCHANGED <<collections, idindex, nextId>>
    /\ RaceFrame

\* The ID Index entry of the object's id is looked up and deleted.
delete_index(i) ==
    /\ calls[i].pc = "delete_index"
    /\ idindex' = {x \in idindex : x.id # calls[i].res.id}
    /\ calls' = [calls EXCEPT ![i].pc = "delete_row"]
    /\ UNCHANGED <<collections, nextId, published, trail>>
    /\ RaceFrame

\* The row is deleted by its primary key, and the call returns.
delete_row(i) ==
    /\ calls[i].pc = "delete_row"
    /\ collections' = DeleteRow(collections, calls[i].res)
    /\ calls' = [calls EXCEPT ![i].pc = "done", ![i].outcome = "ok"]
    /\ UNCHANGED <<idindex, nextId, published, trail>>
    /\ RaceFrame

\* Callers that create and delete collections of the root at the same time,
\* after collections were created one call at a time.
NextRaceDelete ==
    \/ create_root_once /\ calls = NoCalls
    \/ \E name \in Names : calls = NoCalls /\ Collection_create(RootPath, name, {}, FALSE)
    \/ \E name \in Names : create_begin(RootPath, name, {})
    \/ \E i \in DOMAIN calls : create_check_parent(i)
    \/ \E i \in DOMAIN calls : create_check_resource(i)
    \/ \E i \in DOMAIN calls : create_check_collection(i)
    \/ \E i \in DOMAIN calls : create_insert(i)
    \/ \E i \in DOMAIN calls : create_publish(i)
    \/ \E i \in DOMAIN calls : create_index(i)
    \/ \E c \in collections : delete_begin(c)
    \/ \E i \in DOMAIN calls : delete_publish(i)
    \/ \E i \in DOMAIN calls : delete_index(i)
    \/ \E i \in DOMAIN calls : delete_row(i)

SpecRaceDelete == Init /\ [][NextRaceDelete]_vars

\* The activation record of a Resource.create that has read its arguments and
\* the time and is about to check its container.
ResourceCreateCall(container, name, metadata) ==
    [op |-> "Resource.create", container |-> container, name |-> name,
     metadata |-> metadata, ts |-> now, pc |-> "res_check_parent",
     res |-> None, outcome |-> "running"]

\* What no step of a concurrent Resource.create touches.
ResourceRaceFrame ==
    UNCHANGED <<collections, idindex, result, stack, trail, aclVars, doVars, envVars,
                siVars, aceVars>>

\* A caller enters Resource.create.
resource_create_begin(container, name, metadata) ==
    /\ stack = <<>>
    /\ Len(calls) < MaxCalls
    /\ calls' = Append(calls, ResourceCreateCall(container, name, metadata))
    /\ UNCHANGED <<resources, nextId, published>>
    /\ ResourceRaceFrame

\* The check that the container exists.
resource_create_check_parent(i) ==
    /\ calls[i].pc = "res_check_parent"
    /\ calls' = [calls EXCEPT ![i] =
                    IF Collection_find_by_path(@.container) = None
                    THEN Raise(@, "NoSuchCollection")
                    ELSE [@ EXCEPT !.pc = "res_check_name"]]
    /\ UNCHANGED <<resources, nextId, published>>
    /\ ResourceRaceFrame

\* The check that no resource of the container has the name.
resource_create_check_name(i) ==
    /\ calls[i].pc = "res_check_name"
    /\ calls' = [calls EXCEPT ![i] =
                    IF Resource_create_check(@.container, @.name) = "ResourceConflict"
                    THEN Raise(@, "ResourceConflict")
                    ELSE [@ EXCEPT !.pc = "res_insert"]]
    /\ UNCHANGED <<resources, nextId, published>>
    /\ ResourceRaceFrame

\* The insert of the row, which draws the identifier of the new resource.
resource_create_insert(i) ==
    /\ calls[i].pc = "res_insert"
    /\ nextId <= MaxIds
    /\ LET c == calls[i]
           res == [id |-> default_cdmi_id, container |-> c.container, name |-> c.name,
                   metadata |-> meta_cdmi_to_cassandra(c.metadata),
                   create_ts |-> c.ts, modified_ts |-> c.ts]
       IN  /\ resources' = Upsert(resources, res)
           /\ calls' = [calls EXCEPT ![i].pc = "res_publish", ![i].res = res]
    /\ nextId' = nextId + 1
    /\ UNCHANGED published
    /\ ResourceRaceFrame

\* The notification of the create, and the return of the new resource.
resource_create_publish(i) ==
    /\ calls[i].pc = "res_publish"
    /\ IF Resource_publish_end = "ok"
       THEN /\ calls' = [calls EXCEPT ![i].pc = "done", ![i].outcome = "ok"]
            /\ published' = Append(published, ResourceEvent("create", calls[i].res))
       ELSE /\ calls' = [calls EXCEPT ![i] = Raise(@, Resource_publish_end)]
            /\ UNCHANGED published
    /\ UNCHANGED <<resources, nextId>>
    /\ ResourceRaceFrame

\* Callers that create in the collections of the root while a delete_all runs,
\* after collections were created one call at a time.
NextOrphan ==
    \/ create_root_once /\ calls = NoCalls
    \/ \E name \in Names : calls = NoCalls /\ Collection_create(RootPath, name, {}, FALSE)
    \/ \E container \in PathsOfLen(1), name \in Names : create_begin(container, name, {})
    \/ \E i \in DOMAIN calls : create_check_parent(i)
    \/ \E i \in DOMAIN calls : create_check_resource(i)
    \/ \E i \in DOMAIN calls : create_check_collection(i)
    \/ \E i \in DOMAIN calls : create_insert(i)
    \/ \E i \in DOMAIN calls : create_publish(i)
    \/ \E i \in DOMAIN calls : create_index(i)
    \/ \E container \in PathsOfLen(1), name \in Names :
          resource_create_begin(container, name, {})
    \/ \E i \in DOMAIN calls : resource_create_check_parent(i)
    \/ \E i \in DOMAIN calls : resource_create_check_name(i)
    \/ \E i \in DOMAIN calls : resource_create_insert(i)
    \/ \E i \in DOMAIN calls : resource_create_publish(i)
    \/ \E path \in PathsOfLen(1) : Collection_delete_all(path)
    \/ delete_all_resource
    \/ delete_all_recurse
    \/ delete_all_parent

SpecOrphan == Init /\ [][NextOrphan]_vars

(* ------------------------ ACL of a data object -------------------------- *)

\* Most ACEs in the list of one update_cdmi_acl call.
MaxAces == 2

\* The token that stands for any authenticated principal.
Authenticated == "AUTHENTICATED@"

\* The rows of the Group table.
GroupTable == {[id |-> "1", name |-> "g1"], [id |-> "2", name |-> "g2"]}

\* The identifiers callers pass in read_access and write_access: the ids of
\* the two groups, an id of no group, and the token in lower case.
AclGids == {"1", "2", "9", "authenticated@"}

\* The identifiers callers pass in a CDMI ACE: the names of the two groups, a
\* name of no group, and the token.
AclNames == {"g1", "g2", "nobody", Authenticated}

\* Group.find_by_id and Group.find (by name).
Group_find_by_id(gid) == First({g \in GroupTable : g.id = gid})

Group_find(name) == First({g \in GroupTable : g.name = name})

\* str.upper() on the strings that occur.
str_upper(t) ==
    CASE t = "authenticated@" -> "AUTHENTICATED@"
      [] t = "allow" -> "ALLOW"
      [] t = "g1" -> "G1"
      [] t = "g2" -> "G2"
      [] t = "nobody" -> "NOBODY"
      [] OTHER -> t

\* The mask of an access string, as the set of the rights it grants.
str_to_acemask(access, is_object) ==
    CASE access = "read" -> {"READ"}
      [] access = "write" -> {"WRITE"}
      [] access = "read/write" -> {"READ", "WRITE"}

\* The mask and the flags of a CDMI ACE.
cdmi_str_to_acemask(mask, is_object) == {mask}

cdmi_str_to_aceflag(flags) == IF flags = "NO_FLAGS" THEN 0 ELSE 1

\* One entry of the ACE map: the key and the Ace value stored under it.
AceEntry(key, acetype, identifier, aceflags, acemask) ==
    [key |-> key, acetype |-> acetype, identifier |-> identifier,
     aceflags |-> aceflags, acemask |-> acemask]

\* SET acl = <entries>: the map is replaced.
acl_assign(map, entries) == entries

\* SET acl = acl + <entries>: the entries are put into the map, which keeps
\* the entries stored under other keys.
acl_add(map, entries) ==
    {e \in map : e.key \notin {x.key : x \in entries}} \cup entries

\* The record of an ACL update.
AclUpdate(op, outcome, read_access, write_access, cdmi_acl) ==
    [op |-> op, outcome |-> outcome, read_access |-> read_access,
     write_access |-> write_access, cdmi_acl |-> cdmi_acl]

\* The dictionary `access` of update_acl at the key gid.
access_of(read_access, write_access, gid) ==
    IF gid \in write_access
    THEN IF gid \in read_access THEN "read/write" ELSE "write"
    ELSE "read"

\* The identifier update_acl stores for gid, None when gid is skipped.
acl_ident(gid) ==
    IF Group_find_by_id(gid) # None THEN [ident |-> Group_find_by_id(gid).name]
    ELSE IF str_upper(gid) = Authenticated THEN [ident |-> Authenticated]
    ELSE None

\* DataObject.update_acl(read_access, write_access); the lists are given as
\* the sets of their elements, which is all the code uses of them.
DataObject_update_acl(read_access, write_access) ==
    /\ LET ls_access ==
              {AceEntry(gid, "ALLOW", acl_ident(gid).ident, 0,
                        str_to_acemask(access_of(read_access, write_access, gid), TRUE)) :
                 gid \in {x \in read_access \cup write_access : acl_ident(x) # None}}
       IN  acl' = acl_add(acl, ls_access)
    /\ aclop' = AclUpdate("update_acl", "ok", read_access, write_access, <<>>)
    /\ UNCHANGED <<nsVars, aclVars, doVars, envVars, trail, siVars, ccVars>>

\* The ACEs of a CDMI request: for a group, for no group, for the token, and
\* one without the key 'identifier'.
CdmiAces ==
    {[has_identifier |-> TRUE, identifier |-> n, acetype |-> "allow",
      aceflags |-> "NO_FLAGS", acemask |-> m] : n \in AclNames, m \in {"READ", "WRITE"}}
    \cup {[has_identifier |-> FALSE, identifier |-> "", acetype |-> "allow",
           aceflags |-> "NO_FLAGS", acemask |-> "READ"]}

\* The ACE is left out of the update: it has no identifier, or its identifier
\* names no group and is not the token.
cdmi_skipped(cdmi_ace) ==
    \/ ~cdmi_ace.has_identifier
    \/ /\ Group_find(cdmi_ace.identifier) = None
       /\ str_upper(cdmi_ace.identifier) # Authenticated

\* Formatting the ACE raises: the key is read as g.id, and g is None for the
\* token, which names no group.
cdmi_raises(cdmi_ace) ==
    /\ ~cdmi_skipped(cdmi_ace)
    /\ Group_find(cdmi_ace.identifier) = None

\* The entry update_cdmi_acl builds for an ACE of a group.
cdmi_entry(cdmi_ace) ==
    AceEntry(Group_find(cdmi_ace.identifier).id, str_upper(cdmi_ace.acetype),
             Group_find(cdmi_ace.identifier).name,
             cdmi_str_to_aceflag(cdmi_ace.aceflags),
             cdmi_str_to_acemask(cdmi_ace.acemask, FALSE))

\* The map literal of the entries of the list, a later entry of a key
\* replacing an earlier one.
RECURSIVE cdmi_entries(_)
cdmi_entries(cdmi_acl) ==
    IF cdmi_acl = <<>> THEN {}
    ELSE LET front == cdmi_entries(SubSeq(cdmi_acl, 1, Len(cdmi_acl) - 1))
             last == cdmi_acl[Len(cdmi_acl)]
         IN  IF cdmi_skipped(last) THEN front
             ELSE acl_add(front, {cdmi_entry(last)})

\* DataObject.update_cdmi_acl(cdmi_acl)
DataObject_update_cdmi_acl(cdmi_acl) ==
    /\ IF \E i \in 1..Len(cdmi_acl) : cdmi_raises(cdmi_acl[i])
       THEN /\ aclop' = AclUpdate("update_cdmi_acl", "AttributeError", {}, {}, cdmi_acl)
            /\ UNCHANGED acl
       ELSE /\ aclop' = AclUpdate("update_cdmi_acl", "ok", {}, {}, cdmi_acl)
            /\ acl' = acl_assign(acl, cdmi_entries(cdmi_acl))
    /\ UNCHANGED <<nsVars, aclVars, doVars, envVars, trail, siVars, ccVars>>

\* Callers that update the ACL of one data object.
NextAce ==
    \/ \E read_access \in SUBSET AclGids, write_access \in SUBSET AclGids :
          DataObject_update_acl(read_access, write_access)
    \/ \E cdmi_acl \in SeqsUpTo(CdmiAces, MaxAces) : DataObject_update_cdmi_acl(cdmi_acl)

SpecAce == Init /\ [][NextAce]_vars

(* ------------------------------ claims --------------------------------- *)

\* A step that is the call op(container, name) made by the caller.
IsCall(op) == stack = <<>> /\ result'.op = op

Target == merge(result'.container, result'.name)

Stored == <<collections, resources, idindex>>

\* C1: Collection.create and Resource.create with a container that resolves to
\* no Collection fail with NoSuchCollection whatever is stored at the target
\* path, write no Collection row, Resource row or ID Index entry and publish
\* nothing.
C1_NoSuchCollectionNoWrite ==
    [][\A op \in {"Collection.create", "Resource.create"} :
          (IsCall(op) /\ Collection_find_by_path(result'.container) = None)
              => /\ result'.outcome = "NoSuchCollection"
                 /\ UNCHANGED Stored
                 /\ published' = <<>>]_vars

\* C1 happens: a create was refused with NoSuchCollection although an entry is
\* stored at its target path.
C1_Witness ==
    /\ result.op \in {"Collection.create", "Resource.create"}
    /\ result.outcome = "NoSuchCollection"
    /\ Resource_find_by_path(merge(result.container, result.name)) # None

\* C2: with an existing container, Collection.create fails with ResourceConflict
\* when a Resource occupies the target path and with CollectionConflict when a
\* Collection occupies it; Resource.create fails with ResourceConflict when a
\* Resource of that name exists in the container.
C2_ConflictErrors ==
    [][/\ (IsCall("Collection.create") /\ Collection_find_by_path(result'.container) # None)
              => /\ Resource_find_by_path(Target) # None
                        => result'.outcome = "ResourceConflict"
                 /\ Collection_find_by_path(Target) # None
                        => result'.outcome = "CollectionConflict"
       /\ (IsCall("Resource.create") /\ Collection_find_by_path(result'.container) # None)
              => (Resource_find_by_path(Target) # None
                        => result'.outcome = "ResourceConflict")]_vars

\* C3: with an existing container and a free target path, Collection.create
\* succeeds, and find_by_path of the target then returns a Collection with that
\* container and name and a non-empty id no other stored entity has.
C3_CreateThenFind ==
    [][(/\ IsCall("Collection.create")
        /\ Collection_find_by_path(result'.container) # None
        /\ Resource_find_by_path(Target) = None
        /\ Collection_find_by_path(Target) = None)
          => /\ result'.outcome = "ok"
             /\ LET found == Collection_find_by_path(merge(result.container, result.name))'
                IN  /\ found # None
                    /\ found.container = result'.container
                    /\ found.name = result'.name
                    /\ found.id >= 1
                    /\ \A c \in collections' : c.id = found.id => c = found
                    /\ \A r \in resources' : r.id # found.id]_vars

\* C3 happens: a collection was created below a collection that is not the
\* root, beside other stored entities.
C3_Witness ==
    /\ result.op = "Collection.create"
    /\ result.outcome = "ok"
    /\ Len(result.container) >= 1
    /\ resources # {}
    /\ Collection_find_by_path(merge(result.container, result.name)) = result.ret

\* C4: no stored Resource has the full path of a stored Collection.
C4_NoPathCollision ==
    \A r \in resources : \A c \in collections : Resource_path(r) # Collection_path(c)

\* C5: the container of every stored Resource and of every stored non-root
\* Collection resolves to an existing Collection.
C5_NoOrphans ==
    /\ \A r \in resources : Collection_find_by_path(r.container) # None
    /\ \A c \in collections : ~c.is_root => Collection_find_by_path(c.container) # None

\* C5 happens: a delete_all removed a subtree and left a resource stored in a
\* collection other than the root.
C5_Witness ==
    /\ result.op = "delete_all"
    /\ result.outcome = "ok"
    /\ published # <<>>
    /\ \E r \in resources : r.container # RootPath

\* The identifier of the entity a delete notification is about.
EventId(e) == IF e.kind = "collection" THEN e.payload.pre.id ELSE e.payload.id

\* Nothing of the subtree of the last delete_all is left: no Collection and no
\* Resource at or below its path, and no deleted entity resolves by id.
SubtreeGone ==
    /\ \A c \in collections : ~IsPrefix(result.container, Collection_path(c))
    /\ \A r \in resources : ~IsPrefix(result.container, Resource_path(r))
    /\ \A i \in 1..Len(published) :
          /\ IDIndex_find(EventId(published[i])) = None
          /\ Resource_find_by_id(EventId(published[i])) = None

\* C6: after delete_all(p) of an existing collection returned, no Collection and
\* no Resource is stored at p or below p, and no ID Index entry is left for a
\* deleted entity; delete_all of a path that resolves to no Collection changes
\* nothing and publishes nothing.
C6_SubtreeGone ==
    [][/\ (IsCall("delete_all") /\ Collection_find_by_path(result'.container) = None)
              => (UNCHANGED Stored /\ published' = <<>> /\ stack' = <<>>)
       /\ (result.op = "delete_all" /\ result.outcome = "running"
              /\ result'.outcome = "ok")
              => SubtreeGone']_vars

\* The path of the entity a delete notification is about.
EventPath(e) ==
    IF e.kind = "collection" /\ e.container = NullContainer /\ e.name = RootName
    THEN RootPath
    ELSE merge(e.container, e.name)

Below(p, q) == IsPrefix(p, q) /\ p # q

\* C7: delete_all deletes in post-order.  When a collection c is removed, no
\* resource and no collection below c is stored any more and every deletion
\* below c was published before that of c; the child resources of a collection
\* are deleted before anything inside one of its child collections.
C7_PostOrder ==
    result.op = "delete_all" =>
       \A i \in 1..Len(published) :
          LET e == published[i]
          IN  /\ e.operation = "delete"
              /\ e.kind = "collection" =>
                    /\ \A r \in resources : ~Below(EventPath(e), Resource_path(r))
                    /\ \A c \in collections : ~Below(EventPath(e), Collection_path(c))
                    /\ \A j \in 1..Len(published) :
                          Below(EventPath(e), EventPath(published[j])) => j < i
              /\ e.kind = "resource" =>
                    \A j \in 1..Len(published) :
                       Below(e.container, published[j].container) => i < j

\* C7 happens: a finished delete_all removed a collection that had a child
\* resource and a child collection, which itself had a child.
C7_Witness ==
    /\ result.op = "delete_all"
    /\ result.outcome = "ok"
    /\ \E i, j, k \in 1..Len(published) :
          /\ published[i].kind = "resource"
          /\ published[j].kind = "collection"
          /\ published[k].kind = "collection"
          /\ published[i].container = EventPath(published[k])
          /\ published[j].container = EventPath(published[k])
          /\ \E m \in 1..Len(published) :
                published[m].container = EventPath(published[j])

\* C8: delete_all never calls itself on a path it is already deleting: a
\* child collection whose path is the path of its parent ends the recursion.
C8_NoReentry ==
    \A i, j \in 1..Len(stack) : i # j => stack[i].path # stack[j].path

\* The groups of the principal are listed without repetition.
NoRepeat(l) == Cardinality(Range(l)) = Len(l)

\* C9: for a principal whose groups form a set, user_can returns true for an
\* administrator and otherwise true iff the access list of the action is empty
\* or shares a group with the principal's groups; Collection.user_can and
\* Resource.user_can agree, and the call changes no state.
C9_UserCan ==
    [][(answer'.action # "none" /\ NoRepeat(user.groups))
          => LET l == Range(access_list(entry, answer'.action))
                 g == Range(user.groups)
             IN  /\ answer'.allowed
                       = (user.administrator \/ l = {} \/ g \cap l # {})
                 /\ Collection_user_can(user, entry, answer'.action)
                       = Resource_user_can(user, entry, answer'.action)
                 /\ UNCHANGED <<user, entry, Stored, published>>]_vars

\* C9 happens: a principal without administrator rights, in one group, was
\* denied an action on a Collection whose list for it names another group.
C9_Witness ==
    /\ answer.action # "none"
    /\ ~answer.allowed
    /\ ~user.administrator
    /\ Len(user.groups) = 1
    /\ entry.kind = "Collection"
    /\ access_list(entry, answer.action) # <<>>

RECURSIVE Concat(_)
Concat(blocks) == IF blocks = <<>> THEN <<>> ELSE Head(blocks) \o Concat(Tail(blocks))

DataOf(id) == (CHOOSE w \in Range(written) : w.id = id).data

IsSearchCall(op) == search'.op = op /\ UNCHANGED nsVars

\* The terms the index holds for the object.
TermsOf(id) == {r.term : r \in {x \in searchindex : x.object_id = id}}

\* The terms of a list that are no stop words, in order.
WithoutStopWords(terms) == SelectSeq(terms, LAMBDA t : ~is_stop_word(t))

\* C11: index(c) of a Collection c not indexed before inserts one row per token
\* of the cleaned name that is no stop word; find(T), when it returns, contains
\* a resolvable c that was indexed once exactly once, with hit_count equal to
\* the number of distinct terms of T that are no stop words and are among the
\* indexed terms of c (and not at all when that number is 0); the stop words of
\* T do not change the result, and the result is in descending hit_count order.
C11_IndexAndFind ==
    [][/\ \A c \in collections :
             (IsSearchCall("index") /\ search'.id = c.id /\ Times(c.id) = 0)
                => LET tokens == WithoutStopWords(clean(Spelling(c.name)))
                       rows == {r \in searchindex' : r.object_id = c.id}
                   IN  /\ Cardinality(rows) = Len(tokens)
                       /\ {r.term : r \in rows} = Range(tokens)
                       /\ \A r \in rows : r.object_type = "Collection"
       /\ (IsSearchCall("find") /\ search'.outcome = "ok")
                => LET results == search'.results
                       T == search'.terms
                   IN  /\ \A c \in collections :
                             (Times(c.id) = 1 /\ Collection_find_by_id(c.id) = c)
                                => LET n == Cardinality({t \in Range(WithoutStopWords(T)) :
                                                            t \in TermsOf(c.id)})
                                       at == {i \in 1..Len(results) : results[i].id = c.id}
                                   IN  IF n = 0 THEN at = {}
                                       ELSE /\ Cardinality(at) = 1
                                            /\ \A i \in at : results[i].hit_count = n
                       /\ \A i, j \in 1..Len(results) :
                             i < j => results[i].hit_count >= results[j].hit_count
                       /\ results \in sorted_by_hit_count(result_list(WithoutStopWords(T)))]_vars

\* C12: reset(id) removes every row of the object id and no row of another
\* object; no result of find contains an object that was not indexed since its
\* last reset.
C12_ResetRemovesObject ==
    [][/\ \A c \in collections :
             (IsSearchCall("reset") /\ search'.id = c.id)
                => /\ \A r \in searchindex' : r.object_id # c.id
                   /\ \A r \in searchindex : r.object_id # c.id => r \in searchindex'
                   /\ searchindex' \subseteq searchindex
       /\ IsSearchCall("find")
                => \A i \in 1..Len(search'.results) : Times(search'.results[i].id) > 0]_vars

\* C12 happens: a collection was indexed and reset; a later find for one of its
\* terms returned another object and not the reset one.
C12_Witness ==
    /\ search.op = "find"
    /\ search.outcome = "ok"
    /\ search.results # <<>>
    /\ \E c \in collections :
          /\ [id |-> c.id, times |-> 0] \in indexed
          /\ \E i \in 1..Len(search.terms) :
                search.terms[i] \in Range(clean(Spelling(c.name)))
          /\ \A i \in 1..Len(search.results) : search.results[i].id # c.id

\* The last notification the subscriber received about the collection id.
LastOf(id) == First({x \in trail.last : x.id = id})

\* The row of the table stored under the key of the notification e.
RowIn(table, e) == First({c \in table : c.container = e.container /\ c.name = e.name})

\* The Collection notification e published in this step continues the
\* notifications about its collection: a create comes first, with an empty
\* pre-state; an update or a delete comes after a notification that is no
\* delete and has its post-state as pre-state; the post-state is the row
\* stored after the step, and empty for a delete.
Continues(e, stored) ==
    LET prev == LastOf(SubjectId(e))
    IN  CASE e.operation = "create" ->
                /\ prev = None
                /\ e.payload.pre = EmptyState
                /\ stored # None
                /\ e.payload.post = mqtt_get_state(stored)
          [] e.operation \in {"update_object", "update_metadata"} ->
                /\ prev # None
                /\ prev.operation # "delete"
                /\ e.payload.pre = prev.post
                /\ stored # None
                /\ e.payload.post = mqtt_get_state(stored)
          [] e.operation = "delete" ->
                /\ prev # None
                /\ prev.operation # "delete"
                /\ e.payload.pre = prev.post
                /\ stored = None
                /\ e.payload.post = EmptyState

\* A step that is a successful Collection.create, update or delete.
IsMutation ==
    /\ \E op \in {"Collection.create", "Collection.update", "Collection.delete"} : IsCall(op)
    /\ clock' = clock
    /\ result'.outcome = "ok"

C14_UpdateEvent ==
    [][(IsCall("Collection.update") /\ clock' = clock /\ result'.outcome = "ok")
          => /\ Len(published') = 1
             /\ LET e == published'[1]
                    before == RowIn(collections, e)
                    after == RowIn(collections', e)
                IN  /\ e.operation \in {"update_object", "update_metadata"}
                    /\ (e.operation = "update_metadata") = (after.metadata # before.metadata)
                    /\ e.payload.pre = mqtt_get_state(before)
                    /\ e.payload.post = mqtt_get_state(after)
                    /\ after.modified_ts = clock]_vars

\* C14 happens: an update that changed nothing but modified_ts was published
\* as update_object.
C14_Witness ==
    /\ result.op = "Collection.update"
    /\ result.outcome = "ok"
    /\ Len(published) = 1
    /\ published[1].operation = "update_object"
    /\ published[1].payload.pre.metadata # {}
    /\ published[1].payload.pre.modified_ts # published[1].payload.post.modified_ts
    /\ [published[1].payload.pre EXCEPT !.modified_ts = 0]
          = [published[1].payload.post EXCEPT !.modified_ts = 0]

\* The errors of the checks a create makes before it inserts.
CheckErrors == {"NoSuchCollection", "ResourceConflict", "CollectionConflict"}

\* A step that is the call op made while exactly the collaborators f raise.
IsCallUnder(op, f) == IsCall(op) /\ failing = f /\ failing' = f

\* C15: when publish fails during Collection.create, update, delete or
\* Resource.create, update, delete, the row is inserted, updated or removed and
\* the ID Index entry of a Collection is written or removed, as when publish
\* succeeds.
C15_PublishFailureKeepsMutation ==
    [][/\ (IsCallUnder("Collection.create", {"publish.single"})
              /\ result'.outcome \notin CheckErrors)
              => LET row == RowAt(collections', result'.container, result'.name)
                 IN  /\ row # None
                     /\ row.id = nextId
                     /\ [id |-> row.id, classname |-> CollectionClass,
                         key |-> Collection_path(row)] \in idindex'
       /\ \A c \in collections, kwargs \in UpdateKwargs :
             (failing = {"publish.single"} /\ Collection_update(c, kwargs))
                => /\ RowAt(collections', c.container, c.name).modified_ts = clock
                   /\ kwargs.has_metadata
                         => RowAt(collections', c.container, c.name).metadata
                               = meta_cdmi_to_cassandra(kwargs.metadata)
       /\ IsCallUnder("Collection.delete", {"publish.single"})
              => /\ RowAt(collections', result'.container, result'.name) = None
                 /\ \A i \in idindex' :
                       i.id # RowAt(collections, result'.container, result'.name).id
       /\ (IsCallUnder("Resource.create", {"publish.single"})
              /\ result'.outcome \notin CheckErrors)
              => /\ RowAt(resources', result'.container, result'.name) # None
                 /\ RowAt(resources', result'.container, result'.name).id = nextId
       /\ \A r \in resources, kwargs \in UpdateKwargs :
             (failing = {"publish.single"} /\ Resource_update(r, kwargs))
                => /\ RowAt(resources', r.container, r.name).modified_ts = clock
                   /\ kwargs.has_metadata
                         => RowAt(resources', r.container, r.name).metadata
                               = meta_cdmi_to_cassandra(kwargs.metadata)
       /\ IsCallUnder("Resource.delete", {"publish.single"})
              => RowAt(resources', result'.container, result'.name) = None]_vars

\* C16: Collection.create, update, delete and Resource.create, update, delete
\* return normally when publish fails: a call that passed its checks ends
\* without an error.
C16_PublishFailureSwallowed ==
    [][\A op \in {"Collection.create", "Collection.update", "Collection.delete",
                  "Resource.create", "Resource.update", "Resource.delete"} :
          (IsCallUnder(op, {"publish.single"}) /\ result'.outcome \notin CheckErrors)
              => result'.outcome = "ok"]_vars

\* C18: when the write of the ID Index entry fails in a Collection.create that
\* passed its checks, the call ends with the error, the new row stays stored
\* and is found by path, and no ID Index entry exists for its id, so that
\* find_by_id of the id returns nothing.
C18_IndexWriteFailure ==
    [][(/\ IsCallUnder("Collection.create", {"IDIndex.create"})
        /\ Collection_create_check(result'.container, result'.name) = "ok")
          => /\ result'.outcome = "IDIndexError"
             /\ result'.ret = None
             /\ idindex' = idindex
             /\ LET found == Collection_find_by_path(merge(result.container, result.name))'
                IN  /\ found # None
                    /\ found.id = nextId
                    /\ found.container = result'.container
                    /\ found.name = result'.name
                    /\ \A i \in idindex' : i.id # found.id]_vars

\* C18 happens: a create ended with the error of the ID Index write; the
\* collection is found by path and not by id.
C18_Witness ==
    /\ result.op = "Collection.create"
    /\ result.outcome = "IDIndexError"
    /\ "IDIndex.create" \in failing
    /\ published # <<>>
    /\ LET found == Collection_find_by_path(merge(result.container, result.name))
       IN  /\ found # None
           /\ Collection_find_by_id(found.id) = None

\* The caller i makes the step that leaves the position pc.
Leaves(i, pc) == calls[i].pc = pc /\ calls'[i].pc # pc

\* C17: Collection.create is not atomic: a call that passed its three checks
\* inserts its row, publishes and returns the new collection without looking
\* at the store again, so that two calls for the same free path in an existing
\* container can both insert and both return success.
C17_CreateNotAtomic ==
    [][\A i \in DOMAIN calls :
          /\ Leaves(i, "insert")
                => /\ calls'[i].pc = "publish"
                   /\ RowAt(collections', calls[i].container, calls[i].name)
                         = calls'[i].res
          /\ (Leaves(i, "publish") \/ Leaves(i, "index"))
                => calls'[i].outcome \in {"running", "ok"}]_vars

\* C17 happens: two calls for the same path both passed the parent check and
\* both conflict checks while the path was free, both inserted a row and both
\* returned success.
C17_Witness ==
    \E i, j \in DOMAIN calls :
       /\ i # j
       /\ calls[i].container = calls[j].container
       /\ calls[i].name = calls[j].name
       /\ calls[i].outcome = "ok" /\ calls[j].outcome = "ok"
       /\ calls[i].res.id # calls[j].res.id
       /\ Collection_find_by_path(calls[i].container) # None
       /\ Cardinality({c \in collections : Collection_path(c)
                          = merge(calls[i].container, calls[i].name)}) = 1

\* The stored collections flagged as root.
Roots(table) == {c \in table : c.is_root}

\* C19: a create_root called while a root is stored leaves two Collection
\* entries flagged is_root.
C19_TwoRoots ==
    [][(IsCall("create_root") /\ get_root_collection # None)
          => Cardinality(Roots(collections')) >= 2]_vars

\* C19 as the code has it: a create_root called while a root is stored writes
\* the row of the same key again; one entry flagged is_root is stored after the
\* call, it is the collection the call returned and it carries a new
\* identifier, and the entry of the earlier root is gone.
C19_OneRootRow ==
    [][(IsCall("create_root") /\ get_root_collection # None)
          => /\ Roots(collections') = {result'.ret}
             /\ get_root_collection' = result'.ret
             /\ result'.ret.id # get_root_collection.id
             /\ get_root_collection \notin collections'
             /\ collections' \ Roots(collections') = collections \ Roots(collections)]_vars

\* C19 happens: create_root was called for the second time at least, and other
\* collections are stored beside the root.
C19_Witness ==
    /\ result.op = "create_root"
    /\ result.ret.id > 1
    /\ Roots(collections) = {result.ret}
    /\ collections # Roots(collections)

\* The ID Index entry a Collection is created with.
EntryOf(c) == [id |-> c.id, classname |-> CollectionClass, key |-> Collection_path(c)]

\* C20: between two calls every stored Collection, the root included, has the
\* ID Index entry id -> (Collection classname, path), every ID Index entry
\* refers to a stored Collection, and find_by_id returns a Collection only for
\* an identifier whose entry records the Collection classname.
C20_IDIndexConsistent ==
    stack = <<>> =>
       /\ \A c \in collections : EntryOf(c) \in idindex
       /\ \A i \in idindex : \E c \in collections : i = EntryOf(c)
       /\ \A id \in 1..(MaxIds + 1) :
             Collection_find_by_id(id) # None
                => /\ IDIndex_find(id) # None
                   /\ IDIndex_find(id).classname = CollectionClass

\* The sequence numbers stored for the identity id.
NumbersOf(id) == {e.sequence_number : e \in {x \in chunks : x.id = id}}

\* C21: after any sequence of DataObject.create and append_chunk calls the
\* sequence numbers stored for an identity are 0..k-1 for some k: no gap, and
\* no chunk without a chunk 0.
C21_DenseRun ==
    \A id \in {e.id : e \in chunks} : NumbersOf(id) = 0..(Cardinality(NumbersOf(id)) - 1)

\* The errors of a create whose target path is occupied.
ConflictErrors == {"ResourceConflict", "CollectionConflict"}

\* C22: a Collection.create or Resource.create that fails with ResourceConflict
\* or CollectionConflict leaves the Collection rows, the Resource rows and the
\* ID Index as they were and publishes nothing; a Collection.create in an
\* existing container whose target path a Resource or a Collection occupies is
\* such a call.
C22_ConflictNoWrite ==
    [][/\ ((IsCall("Collection.create") \/ IsCall("Resource.create"))
              /\ result'.outcome \in ConflictErrors)
              => /\ UNCHANGED Stored
                 /\ published' = <<>>
       /\ (/\ IsCall("Collection.create")
           /\ Collection_find_by_path(result'.container) # None
           /\ (Resource_find_by_path(Target) # None \/ Collection_find_by_path(Target) # None))
              => /\ result'.outcome \in ConflictErrors
                 /\ UNCHANGED Stored
                 /\ published' = <<>>]_vars

\* C22 happens: a create failed with a conflict, and the entity that occupies
\* its target path is stored with metadata of its own.
C22_Witness ==
    /\ result.op \in {"Collection.create", "Resource.create"}
    /\ result.outcome \in ConflictErrors
    /\ \E e \in collections \cup resources :
          /\ e.container = result.container
          /\ e.name = result.name
          /\ e.metadata # meta_cdmi_to_cassandra({})

\* The identifiers of the two lists for which update_acl stores an ACE.
Resolvable(read_access, write_access) ==
    {gid \in read_access \cup write_access :
        Group_find_by_id(gid) # None \/ str_upper(gid) = Authenticated}

\* C23: update_acl(read_access, write_access) replaces the ACL: afterwards the
\* ACE map holds an entry exactly for each resolvable identifier of the two
\* lists, with the mask of read, write or read/write, and no entry that was
\* there before for another identifier.
C23_UpdateAclReplaces ==
    [][aclop'.op = "update_acl"
          => LET r == aclop'.read_access
                 w == aclop'.write_access
             IN  /\ {e.key : e \in acl'} = Resolvable(r, w)
                 /\ \A e \in acl' :
                       e.acemask = str_to_acemask(access_of(r, w, e.key), TRUE)]_vars

\* C24: update_cdmi_acl completes without error for every list of ACEs: the
\* ACEs with an unknown identifier are skipped, an ACE for the token
\* AUTHENTICATED@ is stored, and the other ACEs are applied.
C24_UpdateCdmiAclCompletes ==
    [][aclop'.op = "update_cdmi_acl"
          => LET l == aclop'.cdmi_acl
             IN  /\ aclop'.outcome = "ok"
                 /\ \A i \in 1..Len(l) :
                       (l[i].has_identifier /\ l[i].identifier = Authenticated)
                          => \E e \in acl' : e.identifier = Authenticated
                 /\ \A i \in 1..Len(l) :
                       (l[i].has_identifier /\ Group_find(l[i].identifier) # None)
                          => \E e \in acl' : e.identifier = l[i].identifier
                 /\ \A e \in acl' :
                       \E i \in 1..Len(l) :
                          l[i].has_identifier /\ l[i].identifier = e.identifier]_vars

\* C25: user_can grants a principal that is no administrator an action on an
\* entry whose access list for it is not empty only when one of the
\* principal's groups is in the list, also when the list of the principal's
\* groups names a group more than once.
C25_NoGrantWithoutGroup ==
    [][(/\ answer'.action # "none"
        /\ answer'.allowed
        /\ ~user.administrator
        /\ access_list(entry, answer'.action) # <<>>)
          => Range(user.groups) \cap Range(access_list(entry, answer'.action)) # {}]_vars

\* C26: SearchIndex.find completes and returns a result list in every reachable
\* state: the index rows of a Collection that was deleted, and the rows whose
\* object_type is not Collection, are left out and do not make find fail.
C26_FindCompletes ==
    search.op = "find" => search.outcome = "ok"

\* C27: under any interleaving of concurrent Collection.create and
\* Collection.delete calls, a Collection that find_by_id(i) returns has the
\* id i.
C27_FindByIdReturnsId ==
    \A i \in 1..(MaxIds + 1) :
       Collection_find_by_id(i) # None => Collection_find_by_id(i).id = i

\* C28: when Collection.delete_all(p) ran at the same time as creates in p or
\* below it, then once all these calls have returned, the container of every
\* stored Resource and of every stored Collection but the root resolves to a
\* stored Collection.
C28_NoOrphanAfterRace ==
    (/\ result.op = "delete_all"
     /\ stack = <<>>
     /\ \A i \in DOMAIN calls : calls[i].pc = "done")
       => /\ \A r \in resources : Collection_find_by_path(r.container) # None
          /\ \A c \in collections :
                c.is_root \/ Collection_find_by_path(c.container) # None

====
